---- MODULE Spec2Model ----
(***************************************************************************)
(* Retrieval-and-context-assembly core of deutsche-tkm-rag:                *)
(*   core/retrieval.py    AdvancedRetriever (two-stage search, fallback)    *)
(*   core/chunking.py     TextChunker, MetadataAwareChunker                 *)
(*   llm/prompt_manager.py PromptManager                                    *)
(* Every operation is one action that performs the whole call and leaves  *)
(* its arguments, its trace of collaborator calls and its outcome in the  *)
(* variable that holds the last call of that component.                    *)
(***************************************************************************)
EXTENDS Integers, Sequences, FiniteSets, TLC

\* ------------------------------------------------------------------ bounds
MaxDocs == 4      \* fragments stored in the vector index
MaxTopK == 3      \* largest top_k / fallback_k a caller passes
MaxRerankK == 4   \* largest rerank_top_k a caller passes
MaxScore == 2     \* reranker scores range over 0..MaxScore

\* ------------------------------------------------- Python values and slices
\* Optional[int]: None is the empty sequence, n is <<n>>.
None == <<>>

Some(n) == <<n>>

IsNone(o) == o = <<>>

Min(a, b) == IF a <= b THEN a ELSE b

\* s[:k] for k >= 0
Take(s, k) == SubSeq(s, 1, Min(k, Len(s)))

\* s[::-1]
Reverse(s) == [i \in 1..Len(s) |-> s[Len(s) + 1 - i]]

Range(s) == {s[i] : i \in 1..Len(s)}

\* --------------------------------------------------------- stored fragments
\* A fragment is known by its position in the catalogue; its page_content and
\* metadata are what the loaders wrote.  Fragments 1 and 3 share one text,
\* fragment 3 carries no identifier at all, fragment 2 only a doc_id, and
\* fragment 4 is a further fragment of the publication fragment 1 is from.
LongText == [i \in 1..801 |-> "x"]

Content(d) ==
    CASE d % 4 = 1 -> <<"a">>
      [] d % 4 = 2 -> <<"b", " ">>
      [] d % 4 = 3 -> <<"a">>
      [] OTHER     -> LongText

Metadata(d) ==
    CASE d % 4 = 1 -> [publication_id |-> <<"pub", d>>, topic |-> "5G"]
      [] d % 4 = 2 -> [doc_id |-> <<"file", d>>, topic |-> "Security"]
      [] d % 4 = 3 -> [topic |-> "5G"]
      [] OTHER     -> [publication_id |-> <<"pub", d - 3>>,
                       doc_id |-> <<"file", d>>, topic |-> "5G"]

Contents == {Content(d) : d \in 1..MaxDocs}

Queries == {"q1", "q2"}

\* filters=None is the empty mapping
NoFilter == <<>>

Filters ==
    {NoFilter, [topic |-> "5G"], [topic |-> "Security"], [topic |-> "Product"],
     [topic |-> "5G", publication_id |-> <<"pub", 1>>]}

Causes == {"index unreachable", "index not ready"}

VARIABLES
    vectordb,        \* AdvancedRetriever.vectordb: the set of stored fragments
    reranker_model,  \* AdvancedRetriever.reranker_model: None or a model name
    installed,       \* whether the CrossEncoder import succeeded
    _reranker,       \* AdvancedRetriever._reranker: None or the instance number
    constructed,     \* how many CrossEncoder instances were constructed
    callers,         \* each request thread's place in the reranker property
    ret              \* the retriever call that has just ended, or idle

VARIABLES
    chunker,         \* the chunker object: chunk_size, chunk_overlap
    input,           \* the document handed to the chunker: text, doc_id, extra
    chunks,          \* what TextChunker.chunk returned, once it has
    process,         \* number of the interpreter process that is running
    runs             \* the chunk_with_metadata calls made so far, in order

VARIABLES
    request,         \* the arguments handed to the PromptManager
    block,           \* what _format_context_block returned, once it has
    prompt,          \* how build_rag_prompt ended, once it has
    generation,      \* the decoded model output and what generate_response
                     \* made of it, once it has
    handler,         \* the /query handler: its wiring and the request it
                     \* has just served, or idle
    session          \* the chat surface's st.session_state and how the last
                     \* submitted query ended

retrievalVars ==
    <<vectordb, reranker_model, installed, _reranker, constructed, callers, ret>>

chunkVars == <<chunker, input, chunks, process, runs>>

promptVars == <<request, block, prompt, generation, handler, session>>

vars == <<retrievalVars, chunkVars, promptVars>>

\* ------------------------------------------------------------- vector index
\* Chroma.similarity_search(query, k, filter): the stored fragments whose
\* metadata holds every filter pair, closest first, at most k of them.
Matches(d, filters) ==
    \A key \in DOMAIN filters :
        key \in DOMAIN Metadata(d) /\ Metadata(d)[key] = filters[key]

Ascending(n) == [i \in 1..n |-> i]

\* similarity order of the catalogue for a query
SimilarityOrder(query) ==
    IF query = "q1" THEN Ascending(MaxDocs) ELSE Reverse(Ascending(MaxDocs))

similarity_search(db, query, k, filters) ==
    Take(SelectSeq(SimilarityOrder(query),
                   LAMBDA d : d \in db /\ Matches(d, filters)), k)

\* ------------------------------------------------------------ call records
NoError == [type |-> "none", primary |-> "none", fallback |-> "none"]

Error(type, primary, fallback) ==
    [type |-> type, primary |-> primary, fallback |-> fallback]

\* One similarity_search issued to the index.
SearchCall(k, filters, cause) ==
    [k |-> k, filters |-> filters, ok |-> cause = "none", cause |-> cause]

IdleRet ==
    [op |-> "idle", query |-> "q1", top_k |-> 0, rerank_top_k |-> None,
     fallback_k |-> 0, filters |-> NoFilter, status |-> "idle",
     result |-> <<>>, error |-> NoError, searches |-> <<>>,
     predicts |-> <<>>, scores |-> <<>>, rerank |-> FALSE]

\* The record of a call that returned `result`.
Returned(call, result, searches, predicts, scores) ==
    [call EXCEPT !.status = "returned", !.result = result,
                 !.searches = searches, !.predicts = predicts,
                 !.scores = scores]

\* The record of a call that raised `error`.
Raised(call, error, searches, predicts) ==
    [call EXCEPT !.status = "raised", !.error = error,
                 !.searches = searches, !.predicts = predicts]

\* ------------------------------------------------ AdvancedRetriever.reranker
\* The lazy property: what one read of self.reranker raises or yields, and the
\* value of self._reranker after it.
reranker(model, cache, count) ==
    IF IsNone(model)
    THEN [raised |-> FALSE, value |-> None, cache |-> cache, count |-> count]
    ELSE IF IsNone(cache)
         THEN IF ~installed
              THEN [raised |-> TRUE, value |-> None, cache |-> cache,
                    count |-> count]
              ELSE [raised |-> FALSE, value |-> Some(count + 1),
                    cache |-> Some(count + 1), count |-> count + 1]
         ELSE [raised |-> FALSE, value |-> cache, cache |-> cache,
               count |-> count]

\* ------------------------------------------------ AdvancedRetriever.retrieve
\* Variant: Stage 1 always fetches top_k, expansion forgotten.
InitialKTopKOnly(rr, top_k, rerank_top_k) == top_k

\* Stage-1 candidate count.
InitialK(rr, top_k, rerank_top_k) ==
    IF ~IsNone(rr)
    THEN IF ~IsNone(rerank_top_k) THEN rerank_top_k[1] ELSE top_k
    ELSE top_k

\* Variant: the filter reaches the index only when no reranker is configured.
SearchFilterUnrankedOnly(rr, filters) ==
    IF ~IsNone(rr) THEN NoFilter ELSE filters

\* filter=filters: the filter handed to the Stage-1 search
SearchFilter(rr, filters) == filters

\* Variant: rerank whenever a reranker exists and anything was found.
ShouldRerankAnyCandidates(rr, results, top_k) ==
    ~IsNone(rr) /\ Len(results) > 0

\* Stage-2 trigger.
ShouldRerank(rr, results, top_k) ==
    ~IsNone(rr) /\ Len(results) > top_k

\* pairs = [[query, doc.page_content] ...]: the batch handed to predict
Pairs(query, results) ==
    [i \in 1..Len(results) |-> <<query, Content(results[i])>>]

\* CrossEncoder.predict: one score per pair, a function of the pair alone.
Predict(score, pairs) == [i \in 1..Len(pairs) |-> score[pairs[i][2]]]

\* np.argsort(scores), default kind: ascending, the order among equal scores
\* is whatever the unstable sort leaves.
Argsort(scores) ==
    {p \in [1..Len(scores) -> 1..Len(scores)] :
        /\ \A i, j \in 1..Len(scores) : i # j => p[i] # p[j]
        /\ \A i \in 1..Len(scores) - 1 : scores[p[i]] <= scores[p[i + 1]]}

\* Variant: the [::-1] forgotten, indices stay ascending.
DescendingForgotten(ascending) == ascending

\* indices = np.argsort(scores)[::-1]
Descending(ascending) == Reverse(ascending)

\* Variant: the [:top_k] forgotten, every candidate is returned.
SortedResultsUnsliced(results, indices, top_k) ==
    [i \in 1..Len(indices) |-> results[indices[i]]]

\* Variant: the sorted texts are mapped back through {page_content: doc}, the
\* way RetrievalEngine.similarity_search does; the last fragment with a text
\* stands for every fragment with that text.
SortedResultsByText(results, indices, top_k) ==
    LET text_to_doc(text) ==
            results[CHOOSE i \in 1..Len(results) :
                        /\ Content(results[i]) = text
                        /\ \A j \in (i + 1)..Len(results) :
                              Content(results[j]) # text]
    IN  [i \in 1..Len(Take(indices, top_k)) |->
            text_to_doc(Content(results[indices[i]]))]

\* [results[i] for i in indices[:top_k]]
SortedResults(results, indices, top_k) ==
    [i \in 1..Len(Take(indices, top_k)) |-> results[indices[i]]]

\* return results[:top_k]
Unranked(results, top_k) == Take(results, top_k)

RetrieveCall(query, top_k, rerank_top_k, filters) ==
    [IdleRet EXCEPT !.op = "retrieve", !.query = query, !.top_k = top_k,
                    !.rerank_top_k = rerank_top_k, !.filters = filters]

Retrieve(query, top_k, rerank_top_k, filters) ==
    /\ ret.op = "idle"
    /\ LET call == RetrieveCall(query, top_k, rerank_top_k, filters)
           rr   == reranker(reranker_model, _reranker, constructed)
           k    == InitialK(rr.value, top_k, rerank_top_k)
           filter == SearchFilter(rr.value, filters)
           results == similarity_search(vectordb, query, k, filter)
           pairs == Pairs(query, results)
       IN  IF rr.raised
           THEN /\ ret' = Raised(call, Error("ImportError", "none", "none"),
                                 <<>>, <<>>)
                /\ UNCHANGED <<_reranker, constructed>>
           ELSE /\ _reranker' = rr.cache
                /\ constructed' = rr.count
                /\ \/ \E cause \in Causes :
                        ret' = Raised(call, Error("BackendError", cause, "none"),
                                      <<SearchCall(k, filter, cause)>>, <<>>)
                   \/ /\ ~ShouldRerank(rr.value, results, top_k)
                      /\ ret' = Returned(call, Unranked(results, top_k),
                                         <<SearchCall(k, filter, "none")>>,
                                         <<>>, <<>>)
                   \/ /\ ShouldRerank(rr.value, results, top_k)
                      /\ ret' = Raised(call, Error("PredictError", "none", "none"),
                                       <<SearchCall(k, filter, "none")>>,
                                       <<pairs>>)
                   \/ /\ ShouldRerank(rr.value, results, top_k)
                      /\ \E score \in [Contents -> 0..MaxScore] :
                           LET scores == Predict(score, pairs)
                           IN  \E ascending \in Argsort(scores) :
                                 ret' = Returned(call,
                                          SortedResults(results,
                                              Descending(ascending), top_k),
                                          <<SearchCall(k, filter, "none")>>,
                                          <<pairs>>, scores)
    /\ UNCHANGED <<vectordb, reranker_model, installed, callers>>
    /\ UNCHANGED <<chunkVars, promptVars>>

\* ------------------------------------------- AdvancedRetriever.retrieve_safe
SafeCall(query, top_k, fallback_k) ==
    [IdleRet EXCEPT !.op = "retrieve_safe", !.query = query, !.top_k = top_k,
                    !.fallback_k = fallback_k]

\* Variant: the message names the fallback error alone.
BothFailedFallbackOnly(e, fallback_error) ==
    Error("RetrievalError", "none", fallback_error)

\* The RetrievalError raised when both searches failed.
BothFailed(e, fallback_error) == Error("RetrievalError", e, fallback_error)

\* Variant: the fallback branch swallows its result.
FallbackReturnNothing(fallback_results) == <<>>

\* What the fallback branch returns when its search succeeded.
FallbackReturn(fallback_results) == fallback_results

\* Variant: the fallback search is issued before the primary result is known.
PrimaryAttemptsEager(first, second) == <<first, second>>

\* return self.vectordb.similarity_search(query, k=top_k): the searches of a
\* call whose first search succeeded.
PrimaryAttempts(first, second) == <<first>>

RetrieveSafe(query, top_k, fallback_k) ==
    /\ ret.op = "idle"
    /\ LET call == SafeCall(query, top_k, fallback_k)
           results == similarity_search(vectordb, query, top_k, NoFilter)
           fallback_results ==
               similarity_search(vectordb, query, fallback_k, NoFilter)
           first(cause) == SearchCall(top_k, NoFilter, cause)
           second(cause) == SearchCall(fallback_k, NoFilter, cause)
       IN  \/ ret' = Returned(call, results,
                              PrimaryAttempts(first("none"), second("none")),
                              <<>>, <<>>)
           \/ \E e \in Causes :
                \/ ret' = Returned(call, FallbackReturn(fallback_results),
                                   <<first(e), second("none")>>, <<>>, <<>>)
                \/ \E fallback_error \in Causes :
                     ret' = Raised(call, BothFailed(e, fallback_error),
                                   <<first(e), second(fallback_error)>>, <<>>)
    /\ UNCHANGED <<vectordb, reranker_model, installed, _reranker, constructed>>
    /\ UNCHANGED <<callers, chunkVars, promptVars>>

\* The caller has taken the outcome; the retriever serves the next call.
Return ==
    /\ ret.op # "idle"
    /\ ret' = IdleRet
    /\ UNCHANGED <<vectordb, reranker_model, installed, _reranker, constructed>>
    /\ UNCHANGED <<callers, chunkVars, promptVars>>

\* ------------------------- AdvancedRetriever.reranker, statement by statement
NumThreads == 2     \* request threads that share the one retriever

Threads == 1..NumThreads

\* retrieve reads self.reranker at lines 225, 236 and 242.
Accesses == 3

\* A thread about to enter the property for the first time: the instance it
\* is holding between construction and assignment, and what its accesses
\* returned so far.
NewCaller == [pc |-> "model", made |-> None, got |-> <<>>]

IdleCallers == [t \in Threads |-> NewCaller]

\* What the other variables do during a step inside the property.
PropertyFrame == UNCHANGED <<vectordb, reranker_model, installed, ret,
                             chunkVars, promptVars>>

\* if self.reranker_model is None: return None
CheckModel(t) ==
    /\ callers[t].pc = "model"
    /\ callers' = [callers EXCEPT
          ![t] = IF IsNone(reranker_model)
                 THEN [@ EXCEPT !.pc = "done", !.got = Append(@, None)]
                 ELSE [@ EXCEPT !.pc = "cache"]]
    /\ UNCHANGED <<_reranker, constructed>>
    /\ PropertyFrame

\* if self._reranker is None:
CheckCache(t) ==
    /\ callers[t].pc = "cache"
    /\ callers' = [callers EXCEPT
          ![t].pc = IF IsNone(_reranker) THEN "import" ELSE "return"]
    /\ UNCHANGED <<_reranker, constructed>>
    /\ PropertyFrame

\* if CrossEncoder is None: raise ImportError(...)
CheckImport(t) ==
    /\ callers[t].pc = "import"
    /\ callers' = [callers EXCEPT
          ![t].pc = IF installed THEN "construct" ELSE "raised"]
    /\ UNCHANGED <<_reranker, constructed>>
    /\ PropertyFrame

\* CrossEncoder(self.reranker_model, max_length=512): a new instance
Construct(t) ==
    /\ callers[t].pc = "construct"
    /\ constructed' = constructed + 1
    /\ callers' = [callers EXCEPT ![t].pc = "store",
                                  ![t].made = Some(constructed + 1)]
    /\ UNCHANGED _reranker
    /\ PropertyFrame

\* self._reranker = <the new instance>
Store(t) ==
    /\ callers[t].pc = "store"
    /\ _reranker' = callers[t].made
    /\ callers' = [callers EXCEPT ![t].pc = "return", ![t].made = None]
    /\ UNCHANGED constructed
    /\ PropertyFrame

\* return self._reranker
ReturnCached(t) ==
    /\ callers[t].pc = "return"
    /\ callers' = [callers EXCEPT ![t].pc = "done",
                                  ![t].got = Append(@, _reranker)]
    /\ UNCHANGED <<_reranker, constructed>>
    /\ PropertyFrame

\* The same retrieve call reads self.reranker again.
Again(t) ==
    /\ callers[t].pc = "done"
    /\ Len(callers[t].got) < Accesses
    /\ callers' = [callers EXCEPT ![t].pc = "model"]
    /\ UNCHANGED <<_reranker, constructed>>
    /\ PropertyFrame

OptK == {None} \cup {Some(n) : n \in 0..MaxRerankK}

InitRetrieval ==
    /\ vectordb \in {1..n : n \in 0..MaxDocs}
    /\ reranker_model \in {None, Some(1)}
    /\ installed \in BOOLEAN
    /\ _reranker = None
    /\ constructed = 0
    /\ callers = IdleCallers
    /\ ret = IdleRet

NextLazy ==
    \E t \in Threads :
        \/ CheckModel(t)
        \/ CheckCache(t)
        \/ CheckImport(t)
        \/ Construct(t)
        \/ Store(t)
        \/ ReturnCached(t)
        \/ Again(t)

RetrieveStep ==
    \E query \in Queries, top_k \in 0..MaxTopK, rerank_top_k \in OptK,
       filters \in Filters :
        Retrieve(query, top_k, rerank_top_k, filters)

RetrieveSafeStep ==
    \E query \in Queries, top_k \in 0..MaxTopK, fallback_k \in 0..MaxTopK :
        RetrieveSafe(query, top_k, fallback_k)


\* ================================================================ chunking
\* Strings are sequences of characters.
IsSpace(c) == c = " "

\* str.split(): the maximal runs of non-whitespace characters, in order
split(text) ==
    LET RECURSIVE go(_, _, _)
        go(i, word, words) ==
            IF i > Len(text)
            THEN IF word = <<>> THEN words ELSE Append(words, word)
            ELSE IF IsSpace(text[i])
                 THEN go(i + 1, <<>>,
                         IF word = <<>> THEN words ELSE Append(words, word))
                 ELSE go(i + 1, Append(word, text[i]), words)
    IN  go(1, <<>>, <<>>)

\* " ".join(words)
RECURSIVE join(_)
join(words) ==
    IF words = <<>> THEN <<>>
    ELSE IF Len(words) = 1 THEN words[1]
         ELSE words[1] \o <<" ">> \o join(Tail(words))

\* str.strip()
RECURSIVE lstrip(_)
lstrip(s) ==
    IF s # <<>> /\ IsSpace(s[1]) THEN lstrip(Tail(s)) ELSE s

strip(s) == Reverse(lstrip(Reverse(lstrip(s))))

\* s[i:j] for 0 <= i <= j
Slice(s, i, j) == SubSeq(s, i + 1, Min(j, Len(s)))

\* range(0, n, step) for step >= 1
StepRange(n, step) == {i \in 0..(n - 1) : i % step = 0}

\* The i-th start of range(0, n, step), counted from 1.
Start(i, step) == (i - 1) * step

\* ------------------------------------------------------- TextChunker.chunk
chunk(chunk_size, chunk_overlap, text) ==
    LET words == split(text)
        step == chunk_size - chunk_overlap
        starts == StepRange(Len(words), step)
        all == [i \in 1..Cardinality(starts) |->
                   join(Slice(words, Start(i, step), Start(i, step) + chunk_size))]
        kept == SelectSeq(all, LAMBDA c : strip(c) # <<>>)
    IN  IF kept # <<>> THEN kept ELSE <<text>>

NotChunked == [done |-> FALSE, value |-> <<>>]

Chunk ==
    /\ ~chunks.done
    /\ chunks' = [done |-> TRUE,
                  value |-> chunk(chunker.chunk_size, chunker.chunk_overlap,
                                  input.text)]
    /\ UNCHANGED <<chunker, input, process, runs, retrievalVars, promptVars>>

\* ------------------------------------------------ inputs of the chunkers
MaxTextLen == 3     \* longest short text handed to a chunker
MaxChunkSize == 3   \* largest chunk_size of a chunker under test
MaxRuns == 2        \* chunk_with_metadata calls followed in one behaviour
MaxProcess == 2     \* interpreter processes followed in one behaviour

RECURSIVE Strings(_, _)
Strings(alphabet, n) ==
    IF n = 0 THEN {<<>>}
    ELSE Strings(alphabet, n - 1) \cup
         {Append(s, c) : s \in Strings(alphabet, n - 1), c \in alphabet}

\* chunk_size with every overlap strictly below it
ChunkerSettings(sizes) ==
    {c \in [chunk_size : sizes, chunk_overlap : 0..MaxChunkSize] :
        c.chunk_overlap < c.chunk_size}

NoExtra == <<>>

IdleRetrieval ==
    /\ vectordb = 1..MaxDocs
    /\ reranker_model = None
    /\ installed = TRUE
    /\ _reranker = None
    /\ constructed = 0
    /\ callers = IdleCallers
    /\ ret = IdleRet

IdleChunking ==
    /\ chunker = [chunk_size |-> 1, chunk_overlap |-> 0]
    /\ input = [text |-> <<>>, doc_id |-> <<"d">>, extra |-> NoExtra]
    /\ chunks = NotChunked
    /\ process = 1
    /\ runs = <<>>

TOP_K == 5              \* settings.TOP_K

RERANK_TOP_K == 10      \* settings.RERANK_TOP_K

\* st.session_state of a chat session nothing was submitted to yet.
NewSession ==
    [messages |-> <<>>, top_k |-> TOP_K, rerank_top_k |-> RERANK_TOP_K,
     last |-> "none", chat_history |-> <<>>]

\* The /query handler as routes.py wires it, before any request.
IdleHandler ==
    [settings_top_k |-> TOP_K, prompt_manager |-> "PromptManager",
     status |-> "idle", query |-> "q1", top_k_given |-> <<>>, top_k |-> 0,
     calls |-> <<>>, retrieved_docs |-> <<>>, prompt |-> <<>>,
     answer |-> "", sources |-> <<>>]

IdlePrompt ==
    /\ request = [query |-> <<>>, context_docs |-> <<>>, chat_history |-> None,
                  tokenizer |-> None]
    /\ block = [done |-> FALSE, value |-> [literal |-> "", lines |-> <<>>]]
    /\ prompt = [status |-> "none", messages |-> <<>>]
    /\ generation = [decoded |-> <<<<>>>>, done |-> FALSE, text |-> <<>>]
    /\ handler = IdleHandler
    /\ session = NewSession

InitTextChunker ==
    /\ IdleRetrieval
    /\ chunker \in ChunkerSettings(1..MaxChunkSize)
    /\ input \in [text : Strings({"a", "b", " "}, MaxTextLen),
                  doc_id : {<<"d">>}, extra : {NoExtra}]
    /\ chunks = NotChunked
    /\ process = 1
    /\ runs = <<>>
    /\ IdlePrompt

NextTextChunker == Chunk

SpecTextChunker == InitTextChunker /\ [][NextTextChunker]_vars

\* ------------------------------------- MetadataAwareChunker.splitter
\* RecursiveCharacterTextSplitter.split_text on a text that holds none of the
\* separators "\n\n", "\n", ". ", " ": the text is cut into characters and
\* merged into windows of chunk_size characters, each window keeping the last
\* chunk_overlap characters of the one before; the last window ends the text.
WindowCount(n, chunk_size, step) ==
    IF n = 0 THEN 0
    ELSE IF n <= chunk_size THEN 1
         ELSE 1 + ((n - chunk_size) + step - 1) \div step

split_text(chunk_size, chunk_overlap, text) ==
    LET step == chunk_size - chunk_overlap
    IN  [i \in 1..WindowCount(Len(text), chunk_size, step) |->
            Slice(text, Start(i, step), Start(i, step) + chunk_size)]

\* ------------------------------- MetadataAwareChunker._generate_chunk_id
FirstChars == 50

DigitChars == <<"0", "1", "2", "3", "4", "5", "6", "7", "8", "9">>

\* str(n) for n >= 0
RECURSIVE Str(_)
Str(n) ==
    IF n < 10 THEN <<DigitChars[n + 1]>>
    ELSE Str(n \div 10) \o <<DigitChars[(n % 10) + 1]>>

\* Variant: a purely positional id, the chunk's text left out of the hash.
HashInputPositional(doc_id, chunk_index, chunk_text) ==
    doc_id \o <<"_">> \o Str(chunk_index) \o <<"_">>

\* f"{doc_id}_{chunk_index}_{first_50_chars}"
hash_input(doc_id, chunk_index, chunk_text) ==
    doc_id \o <<"_">> \o Str(chunk_index) \o <<"_">> \o
    (IF chunk_text # <<>> THEN Take(chunk_text, FirstChars) ELSE <<>>)

\* hashlib.sha256(b).hexdigest()[:16]: a digest that is a function of the
\* hashed string alone; distinct strings are taken to give distinct digests.
sha256_16(string) == <<"sha256", string>>

\* Variant: Python's hash(), salted anew in every interpreter process.
SaltedChunkId(doc_id, chunk_index, chunk_text) ==
    <<"hash", process, hash_input(doc_id, chunk_index, chunk_text)>>

_generate_chunk_id(doc_id, chunk_index, chunk_text) ==
    sha256_16(hash_input(doc_id, chunk_index, chunk_text))

\* ------------------------------ MetadataAwareChunker.chunk_with_metadata
\* dict.update
Update(base, extra) ==
    [key \in DOMAIN base \cup DOMAIN extra |->
        IF key \in DOMAIN extra THEN extra[key] ELSE base[key]]

chunk_with_metadata(chunk_size, chunk_overlap, text, source, doc_id, extra) ==
    LET pieces == split_text(chunk_size, chunk_overlap, text)
        total_chunks == Len(pieces)
    IN  [i \in 1..total_chunks |->
            [page_content |-> pieces[i],
             metadata |->
                Update([source |-> source,
                        doc_id |-> doc_id,
                        chunk_index |-> i - 1,
                        total_chunks |-> total_chunks,
                        chunk_id |-> _generate_chunk_id(doc_id, i - 1, pieces[i])],
                       extra)]]

Sources == {"a.txt", "b.txt"}

ChunkWithMetadata(source) ==
    /\ Len(runs) < MaxRuns
    /\ runs' = Append(runs,
                 [source |-> source, process |-> process,
                  documents |->
                     chunk_with_metadata(chunker.chunk_size,
                                         chunker.chunk_overlap, input.text,
                                         source, input.doc_id, input.extra)])
    /\ UNCHANGED <<chunker, input, chunks, process, retrievalVars, promptVars>>

\* The ingestion is started again in a new interpreter process.
Restart ==
    /\ process < MaxProcess
    /\ process' = process + 1
    /\ UNCHANGED <<chunker, input, chunks, runs, retrievalVars, promptVars>>

\* Two texts longer than the hashed prefix that differ only after it.
LongPrefix == [i \in 1..FirstChars |-> "x"]

LongTexts == {LongPrefix \o <<"a", "a">>, LongPrefix \o <<"a", "b">>}

LongChunkSize == 60

DocIds == {<<"d">>, <<"d", "_", "1">>}

Extras ==
    {NoExtra, [topic |-> "5G"],
     [chunk_index |-> 7, chunk_id |-> <<"custom", <<>>>>]}

InitChunker ==
    /\ IdleRetrieval
    /\ chunker \in ChunkerSettings((1..MaxChunkSize) \cup {LongChunkSize})
    /\ input \in [text : Strings({"a", "b"}, MaxTextLen) \cup LongTexts,
                  doc_id : DocIds, extra : Extras]
    /\ chunks = NotChunked
    /\ process = 1
    /\ runs = <<>>
    /\ IdlePrompt

ChunkWithMetadataStep == \E source \in Sources : ChunkWithMetadata(source)

\* --------------------------------------------- re-ingesting an edited file
\* The texts a document on disk may hold from one ingestion to the next.
ReingestTexts == LongTexts \cup {<<"a">>, <<"b">>, <<"a", "b">>}

\* loader.load_all_documents() finds the document's text changed on disk; its
\* publication_id and the rest of its metadata are as before. Edits after the
\* last ingestion followed are left out: nothing reads them.
Edit(text) ==
    /\ Len(runs) < MaxRuns
    /\ text # input.text
    /\ input' = [input EXCEPT !.text = text]
    /\ UNCHANGED <<chunker, chunks, process, runs, retrievalVars, promptVars>>

EditStep == \E text \in ReingestTexts : Edit(text)

InitReingest ==
    /\ IdleRetrieval
    /\ chunker \in ChunkerSettings((1..MaxChunkSize) \cup {LongChunkSize})
    /\ input \in [text : ReingestTexts, doc_id : DocIds, extra : Extras]
    /\ chunks = NotChunked
    /\ process = 1
    /\ runs = <<>>
    /\ IdlePrompt

NextReingest == ChunkWithMetadataStep \/ EditStep

SpecReingest == InitReingest /\ [][NextReingest]_vars

\* ------------------------------------------------- ingesting a corpus
\* Document ids as ingest.py takes them from publication_id or file_name, and
\* document texts; both may hold digits and underscores.
CorpusDocIds == {<<"d">>, <<"d", "_", "0">>}

CorpusTexts == {<<"a">>, <<"a", "b">>, <<"0", "_", "a">>}

\* for doc in documents: the loop moves on to another document.
NextDocument(doc_id, text) ==
    /\ Len(runs) < MaxRuns
    /\ <<doc_id, text>> # <<input.doc_id, input.text>>
    /\ input' = [input EXCEPT !.doc_id = doc_id, !.text = text]
    /\ UNCHANGED <<chunker, chunks, process, runs, retrievalVars, promptVars>>

NextDocumentStep ==
    \E doc_id \in CorpusDocIds, text \in CorpusTexts :
        NextDocument(doc_id, text)

InitCorpus ==
    /\ IdleRetrieval
    /\ chunker \in ChunkerSettings(1..MaxChunkSize)
    /\ input \in [text : CorpusTexts, doc_id : CorpusDocIds, extra : {NoExtra}]
    /\ chunks = NotChunked
    /\ process = 1
    /\ runs = <<>>
    /\ IdlePrompt

NextCorpus == ChunkWithMetadataStep \/ NextDocumentStep

SpecCorpus == InitCorpus /\ [][NextCorpus]_vars

NextChunker == ChunkWithMetadataStep \/ Restart

SpecChunker == InitChunker /\ [][NextChunker]_vars

\* ========================================================= PromptManager
NoDocumentsMarker == "No relevant documents found."

ExcerptChars == 800

\* doc.metadata.get("publication_id", doc.metadata.get("doc_id", f"doc_{idx}"))
publication_id(d, idx) ==
    IF "publication_id" \in DOMAIN Metadata(d)
    THEN Metadata(d).publication_id
    ELSE IF "doc_id" \in DOMAIN Metadata(d)
         THEN Metadata(d).doc_id
         ELSE <<"doc_", idx>>

\* doc.page_content[:800].strip(), "..." appended when the text is longer
excerpt(d) ==
    strip(Take(Content(d), ExcerptChars)) \o
    (IF Len(Content(d)) > ExcerptChars THEN <<".", ".", ".">> ELSE <<>>)

\* f"{idx}. [Publication ID: {publication_id}]\n{excerpt}\n"
ContextLine(d, idx) ==
    [number |-> idx, label |-> publication_id(d, idx), excerpt |-> excerpt(d)]

\* Variant: fragments that carry no identifier are left out of the block.
ContextLinesIdentifiedOnly(context_docs) ==
    LET all == [idx \in 1..Len(context_docs) |->
                   ContextLine(context_docs[idx], idx)]
    IN  SelectSeq(all, LAMBDA line : line.label[1] # "doc_")

\* the loop over enumerate(context_docs, start=1)
ContextLines(context_docs) ==
    [idx \in 1..Len(context_docs) |-> ContextLine(context_docs[idx], idx)]

\* A rendered context block: the literal text, or the lines joined by "\n".
Block(literal, lines) == [literal |-> literal, lines |-> lines]

\* Variant: no early return, an empty list joins to the empty string.
FormatWithoutMarker(context_docs) == Block("", ContextLines(context_docs))

_format_context_block(context_docs) ==
    IF context_docs = <<>>
    THEN Block(NoDocumentsMarker, <<>>)
    ELSE Block("", ContextLines(context_docs))

Message(role, content) == [role |-> role, content |-> content]

\* f"{query.strip()}\n\nContext documents:\n{context_block}\n\n" + instruction
user_content(query, context_block) ==
    [query |-> strip(query), header |-> "Context documents:",
     context |-> context_block,
     instruction |-> "Respond with a single, well-structured answer."]

AnchorMessages ==
    <<Message("system", [text |-> "SYSTEM_PROMPT"]),
      Message("user", [text |-> "Remember: if information is absent ..."]),
      Message("assistant", [text |-> "Understood. I will base answers ..."])>>

\* Variant: the history is spliced in right after the system turn, ahead of
\* the reinforcement pair.
BuildHistoryBeforeAnchors(query, context_docs, chat_history) ==
    LET context_block == _format_context_block(context_docs)
        history == IF ~IsNone(chat_history) /\ chat_history[1] # <<>>
                   THEN chat_history[1] ELSE <<>>
    IN  <<AnchorMessages[1]>> \o history \o
        <<AnchorMessages[2], AnchorMessages[3]>> \o
        <<Message("user", user_content(query, context_block))>>

\* The messages handed to tokenizer.apply_chat_template.
build_rag_prompt(query, context_docs, chat_history) ==
    LET context_block == _format_context_block(context_docs)
        history == IF ~IsNone(chat_history) /\ chat_history[1] # <<>>
                   THEN chat_history[1] ELSE <<>>
    IN  AnchorMessages \o history \o
        <<Message("user", user_content(query, context_block))>>

NotFormatted == [done |-> FALSE, value |-> Block("", <<>>)]

NotBuilt == [status |-> "none", messages |-> <<>>]

FormatContextBlock ==
    /\ ~block.done
    /\ block' = [done |-> TRUE,
                 value |-> _format_context_block(request.context_docs)]
    /\ UNCHANGED <<request, prompt, generation, handler, session>>
    /\ UNCHANGED <<retrievalVars, chunkVars>>

BuildRagPrompt ==
    /\ prompt.status = "none"
    /\ IF IsNone(request.tokenizer)
       THEN prompt' = [status |-> "ValueError", messages |-> <<>>]
       ELSE prompt' = [status |-> "built",
                       messages |-> build_rag_prompt(request.query,
                                                     request.context_docs,
                                                     request.chat_history)]
    /\ UNCHANGED <<request, block, generation, handler, session>>
    /\ UNCHANGED <<retrievalVars, chunkVars>>

MaxContext == 2     \* most fragments handed to the PromptManager

RECURSIVE Lists(_, _)
Lists(elements, n) ==
    IF n = 0 THEN {<<>>}
    ELSE Lists(elements, n - 1) \cup
         {Append(l, e) : l \in Lists(elements, n - 1), e \in elements}

PromptQueries == {<<>>, <<"q">>, <<" ", "q", " ">>}

Histories ==
    {None, Some(<<>>),
     Some(<<Message("user", [text |-> "hi"]),
            Message("assistant", [text |-> "hello"])>>),
     Some(<<Message("assistant", [text |-> ""])>>)}

InitPrompt ==
    /\ IdleRetrieval
    /\ IdleChunking
    /\ request \in [query : PromptQueries,
                    context_docs : Lists(1..MaxDocs, MaxContext),
                    chat_history : Histories,
                    tokenizer : {None, Some("chat template")}]
    /\ block = NotFormatted
    /\ prompt = NotBuilt
    /\ generation = [decoded |-> <<<<>>>>, done |-> FALSE, text |-> <<>>]
    /\ handler = IdleHandler
    /\ session = NewSession

NextPrompt == FormatContextBlock \/ BuildRagPrompt

SpecPrompt == InitPrompt /\ [][NextPrompt]_vars

\* ======================================== generate_response: output cleanup
\* The decoded output is a sequence of lines (generated_text.split("\n")), a
\* line a sequence of pieces of text that the cleanup never cuts apart.
MaxLines == 2       \* most lines of a decoded output

MaxLineLen == 2     \* most pieces of a line

Pieces == {"assistant", "User", ":", " ", "hi", "you are", "<|im_start|>"}

Markers == {"<|im_start|>", "<|im_end|>"}

Roles == {"system", "user", "assistant"}

Keywords ==
    {"you are", "guidelines", "remember:", "query:", "context documents"}

\* str.lower()
LowerPiece(piece) == IF piece = "User" THEN "user" ELSE piece

lower(line) == [i \in 1..Len(line) |-> LowerPiece(line[i])]

\* line.replace("<|im_start|>", "").replace("<|im_end|>", "")
RemoveMarkers(line) == SelectSeq(line, LAMBDA piece : piece \notin Markers)

\* line_stripped.lower() in ("system", "user", "assistant")
IsRoleMarker(line_stripped) ==
    Len(line_stripped) = 1 /\ LowerPiece(line_stripped[1]) \in Roles

FirstColon(line) ==
    CHOOSE i \in 1..Len(line) :
        line[i] = ":" /\ \A j \in 1..(i - 1) : line[j] # ":"

\* line_stripped.split(":")[0].strip().lower()
role_prefix(line_stripped) ==
    lower(strip(SubSeq(line_stripped, 1, FirstColon(line_stripped) - 1)))

\* ":".join(line_stripped.split(":")[1:]).strip()
content(line_stripped) ==
    strip(SubSeq(line_stripped, FirstColon(line_stripped) + 1,
                 Len(line_stripped)))

\* any(keyword in line_stripped.lower() for keyword in [...])
HasKeyword(line_stripped) ==
    \E i \in 1..Len(line_stripped) : LowerPiece(line_stripped[i]) \in Keywords

\* The for loop over the lines: cleaned_lines when it ends.
RECURSIVE CleanFrom(_, _, _, _)
CleanFrom(lines, i, cleaned_lines, in_assistant_response) ==
    IF i > Len(lines) THEN cleaned_lines
    ELSE
    LET line == RemoveMarkers(lines[i])
        line_stripped == strip(line)
    IN  IF line_stripped = <<>>
        THEN CleanFrom(lines, i + 1,
                       IF in_assistant_response
                       THEN Append(cleaned_lines, <<>>) ELSE cleaned_lines,
                       in_assistant_response)
        ELSE IF IsRoleMarker(line_stripped)
        THEN CleanFrom(lines, i + 1, cleaned_lines,
                       in_assistant_response
                       \/ LowerPiece(line_stripped[1]) = "assistant")
        ELSE IF /\ \E j \in 1..Len(line_stripped) : line_stripped[j] = ":"
                /\ IsRoleMarker(role_prefix(line_stripped))
        THEN IF /\ role_prefix(line_stripped) = <<"assistant">>
                /\ content(line_stripped) # <<>>
             THEN CleanFrom(lines, i + 1,
                            Append(cleaned_lines, content(line_stripped)),
                            TRUE)
             ELSE CleanFrom(lines, i + 1, cleaned_lines,
                            in_assistant_response)
        ELSE IF in_assistant_response \/ ~HasKeyword(line_stripped)
        THEN CleanFrom(lines, i + 1, Append(cleaned_lines, line), TRUE)
        ELSE CleanFrom(lines, i + 1, cleaned_lines, in_assistant_response)

\* "\n".join(lines).strip(), as lines again: blank lines at either end go,
\* then the whitespace before the first and after the last line.
RECURSIVE DropBlankHead(_)
DropBlankHead(lines) ==
    IF lines # <<>> /\ strip(lines[1]) = <<>>
    THEN DropBlankHead(Tail(lines)) ELSE lines

StripText(lines) ==
    LET kept == Reverse(DropBlankHead(Reverse(DropBlankHead(lines))))
        n == Len(kept)
    IN  IF n = 0 THEN <<<<>>>>
        ELSE [i \in 1..n |->
                LET left == IF i = 1 THEN lstrip(kept[i]) ELSE kept[i]
                IN  IF i = n THEN Reverse(lstrip(Reverse(left))) ELSE left]

\* The text generate_response returns for a decoded output.
CleanGenerated(lines) ==
    LET cleaned_lines == CleanFrom(lines, 1, <<>>, FALSE)
    IN  IF cleaned_lines # <<>> THEN StripText(cleaned_lines) ELSE lines

GenerateResponse ==
    /\ ~generation.done
    /\ generation' = [generation EXCEPT !.done = TRUE,
                                        !.text = CleanGenerated(generation.decoded)]
    /\ UNCHANGED <<request, block, prompt, handler, session>>
    /\ UNCHANGED <<retrievalVars, chunkVars>>

DecodedOutputs ==
    Lists(Lists(Pieces, MaxLineLen), MaxLines) \ {<<>>}

InitGeneration ==
    /\ IdleRetrieval
    /\ IdleChunking
    /\ request = [query |-> <<>>, context_docs |-> <<>>, chat_history |-> None,
                  tokenizer |-> None]
    /\ block = NotFormatted
    /\ prompt = NotBuilt
    /\ generation \in [decoded : DecodedOutputs, done : {FALSE}, text : {<<>>}]
    /\ handler = IdleHandler
    /\ session = NewSession

NextGeneration == GenerateResponse

SpecGeneration == InitGeneration /\ [][NextGeneration]_vars

\* ================================================= POST /query (routes.py)
MinTopK == 1        \* QueryRequest.top_k ge=1, and max(1, ...)

MaxTopKAllowed == 20    \* QueryRequest.top_k le=20, and min(20, ...)

\* The top_k values a request body may carry: absent, or an integer; the
\* values next to the limits and beyond them.
RequestTopKs ==
    {None} \cup {Some(n) : n \in {0, MinTopK, 2, MaxTopKAllowed,
                                  MaxTopKAllowed + 1}}

\* settings.TOP_K: the default, or a value the environment overrides it with.
ConfiguredTopKs == {TOP_K, 0, MaxTopKAllowed + 5}

\* get_prompt_manager() as wired in routes.py, or the double the API tests
\* patch in, whose build_rag_prompt returns a prompt for any arguments.
PromptManagers == {"PromptManager", "MagicMock"}

Max(a, b) == IF a >= b THEN a ELSE b

\* Variant: the configured default is used as it is.
ClampNothing(top_k) == top_k

\* max(1, min(20, top_k))
Clamp(top_k) == Max(MinTopK, Min(MaxTopKAllowed, top_k))

\* request.top_k or settings.TOP_K
ChosenTopK(top_k_given, settings_top_k) ==
    IF IsNone(top_k_given) \/ top_k_given[1] = 0
    THEN settings_top_k ELSE top_k_given[1]

\* Field(None, ge=1, le=20): what request validation lets through
Accepted(top_k_given) ==
    \/ IsNone(top_k_given)
    \/ top_k_given[1] >= MinTopK /\ top_k_given[1] <= MaxTopKAllowed

PlaceholderId == <<"unknown">>

\* doc.metadata.get("publication_id", doc.metadata.get("doc_id", "unknown"))
pub_id(d) ==
    IF "publication_id" \in DOMAIN Metadata(d) THEN Metadata(d).publication_id
    ELSE IF "doc_id" \in DOMAIN Metadata(d) THEN Metadata(d).doc_id
         ELSE PlaceholderId

\* Variant: every fragment's identifier is appended, seen before or not.
PublicationIdsRepeated(docs) == [i \in 1..Len(docs) |-> pub_id(docs[i])]

\* The loop that collects publication_ids, each at its first occurrence.
RECURSIVE publication_ids(_)
publication_ids(docs) ==
    IF docs = <<>> THEN <<>>
    ELSE LET before == publication_ids(SubSeq(docs, 1, Len(docs) - 1))
             id == pub_id(docs[Len(docs)])
         IN  IF id \in Range(before) THEN before ELSE Append(before, id)

\* The request's record once the handler has answered with `status`.
Answered(served, status, calls) ==
    [served EXCEPT !.status = status, !.calls = calls]

\* async def query(request): one request from validation to response.
Query(query, top_k_given) ==
    /\ handler.status = "idle"
    /\ LET served == [handler EXCEPT !.query = query,
                                     !.top_k_given = top_k_given]
           top_k == Clamp(ChosenTopK(top_k_given, handler.settings_top_k))
           rr == reranker(reranker_model, _reranker, constructed)
           retrieved_docs ==
               Unranked(similarity_search(vectordb, query,
                                          InitialK(rr.value, top_k, None),
                                          SearchFilter(rr.value, NoFilter)),
                        top_k)
           called == [served EXCEPT !.top_k = top_k]
           found == [called EXCEPT !.retrieved_docs = retrieved_docs]
           built == [found EXCEPT
                        !.prompt = Some([query |-> query,
                                         context_docs |-> retrieved_docs])]
       IN  IF ~Accepted(top_k_given)
           THEN /\ handler' = Answered(served, "422", <<>>)
                /\ UNCHANGED <<_reranker, constructed>>
           ELSE IF rr.raised
           THEN /\ handler' = Answered(called, "500", <<"retrieve">>)
                /\ UNCHANGED <<_reranker, constructed>>
           ELSE
             /\ _reranker' = rr.cache
             /\ constructed' = rr.count
             /\ \/ handler' = Answered(called, "500", <<"retrieve">>)
                \/ /\ retrieved_docs = <<>>
                   /\ handler' = Answered(found, "404", <<"retrieve">>)
                \/ /\ retrieved_docs # <<>>
                   /\ handler.prompt_manager = "PromptManager"
                   /\ handler' = Answered(found, "500",
                                          <<"retrieve", "build_rag_prompt">>)
                \/ /\ retrieved_docs # <<>>
                   /\ handler.prompt_manager # "PromptManager"
                   /\ \/ handler' =
                            Answered(built, "500",
                                     <<"retrieve", "build_rag_prompt",
                                       "generate_response">>)
                      \/ handler' =
                            Answered([built EXCEPT
                                        !.answer = "answer",
                                        !.sources =
                                            publication_ids(retrieved_docs)],
                                     "200",
                                     <<"retrieve", "build_rag_prompt",
                                       "generate_response">>)
    /\ UNCHANGED <<vectordb, reranker_model, installed, callers, ret>>
    /\ UNCHANGED <<request, block, prompt, generation, session, chunkVars>>

\* The response has gone out; the handler takes the next request.
Respond ==
    /\ handler.status # "idle"
    /\ handler' = [IdleHandler EXCEPT
                      !.settings_top_k = handler.settings_top_k,
                      !.prompt_manager = handler.prompt_manager]
    /\ UNCHANGED <<retrievalVars, chunkVars>>
    /\ UNCHANGED <<request, block, prompt, generation, session>>

QueryStep ==
    \E query \in Queries, top_k_given \in RequestTopKs :
        Query(query, top_k_given)

InitApi ==
    /\ InitRetrieval
    /\ IdleChunking
    /\ request = [query |-> <<>>, context_docs |-> <<>>, chat_history |-> None,
                  tokenizer |-> None]
    /\ block = NotFormatted
    /\ prompt = NotBuilt
    /\ generation = [decoded |-> <<<<>>>>, done |-> FALSE, text |-> <<>>]
    /\ handler \in {[IdleHandler EXCEPT !.settings_top_k = t,
                                        !.prompt_manager = m] :
                       t \in ConfiguredTopKs, m \in PromptManagers}
    /\ session = NewSession

NextApi == QueryStep \/ Respond

SpecApi == InitApi /\ [][NextApi]_vars

\* ============================================ chat surface (streamlit_app.py)
MaxSubmits == 3     \* queries submitted to one chat session

\* f"{msg['role']}: {msg['content']}"
TurnText(message) == <<message.role, ": ", message.content>>

\* The chat_history argument: every stored turn but the last, as strings.
HistoryArgument(messages) ==
    [i \in 1..(Len(messages) - 1) |-> TurnText(messages[i])]

\* prompt_manager.build_rag_prompt(query=..., context_docs=..., chat_history=...)
\* as the chat surface calls it: the tokenizer parameter keeps its default.
PromptCallTokenizer == None

\* How the script run of one submitted query ends, given what retrieval did:
\* "stopped" by st.stop(), "error" in the except branch, or "answered".
RunOutcome(retrieval_raised, retrieved_docs, generation_raised) ==
    IF retrieval_raised THEN "error"
    ELSE IF retrieved_docs = <<>> THEN "stopped"
    ELSE IF IsNone(PromptCallTokenizer) THEN "error"
    ELSE IF generation_raised THEN "error"
    ELSE "answered"

\* st.session_state.messages when the run has ended.
MessagesAfter(messages, outcome, answer) ==
    IF outcome = "answered"
    THEN Append(messages, [role |-> "assistant", content |-> answer])
    ELSE messages

\* One script run: the user submits user_query in the chat input.
Submit(user_query) ==
    /\ Len(SelectSeq(session.messages, LAMBDA m : m.role = "user")) < MaxSubmits
    /\ LET messages == Append(session.messages,
                              [role |-> "user", content |-> user_query])
           rr == reranker(reranker_model, _reranker, constructed)
           k == InitialK(rr.value, session.top_k, Some(session.rerank_top_k))
           results == similarity_search(vectordb, user_query, k,
                                        SearchFilter(rr.value, NoFilter))
           ended(outcome, history) ==
               session' = [session EXCEPT
                              !.messages = MessagesAfter(messages, outcome,
                                                         "answer"),
                              !.last = outcome,
                              !.chat_history = history]
       IN  IF rr.raised
           THEN /\ ended(RunOutcome(TRUE, <<>>, FALSE), <<>>)
                /\ UNCHANGED <<_reranker, constructed>>
           ELSE /\ _reranker' = rr.cache
                /\ constructed' = rr.count
                /\ \/ ended(RunOutcome(TRUE, <<>>, FALSE), <<>>)
                   \/ \E generation_raised \in BOOLEAN :
                        ended(RunOutcome(FALSE, results, generation_raised),
                              IF results = <<>> THEN <<>>
                              ELSE HistoryArgument(messages))
    /\ UNCHANGED <<vectordb, reranker_model, installed, callers, ret>>
    /\ UNCHANGED <<request, block, prompt, generation, handler, chunkVars>>

SubmitStep == \E user_query \in Queries : Submit(user_query)

InitChat ==
    /\ InitRetrieval
    /\ IdleChunking
    /\ request = [query |-> <<>>, context_docs |-> <<>>, chat_history |-> None,
                  tokenizer |-> None]
    /\ block = NotFormatted
    /\ prompt = NotBuilt
    /\ generation = [decoded |-> <<<<>>>>, done |-> FALSE, text |-> <<>>]
    /\ handler = IdleHandler
    /\ session \in {[NewSession EXCEPT !.top_k = k] : k \in {1, TOP_K}}

NextChat == SubmitStep

SpecChat == InitChat /\ [][NextChat]_vars

Init == InitRetrieval /\ IdleChunking /\ IdlePrompt

Next == RetrieveStep \/ RetrieveSafeStep \/ Return

Spec == Init /\ [][Next]_vars

InitLazy ==
    /\ vectordb = {}
    /\ reranker_model \in {None, Some(1)}
    /\ installed \in BOOLEAN
    /\ _reranker = None
    /\ constructed = 0
    /\ callers = IdleCallers
    /\ ret = IdleRet
    /\ IdleChunking
    /\ IdlePrompt

SpecLazy == InitLazy /\ [][NextLazy]_vars

\* ======================================= RetrievalEngine.similarity_search
\* x or default, for an int x
OrDefault(x, default) == IF x = 0 THEN default ELSE x

\* list.sort(key=score, reverse=True): descending, and stable, so equal
\* scores keep their original order.
StableDescending(scores) ==
    CHOOSE p \in [1..Len(scores) -> 1..Len(scores)] :
        /\ \A i, j \in 1..Len(scores) : i # j => p[i] # p[j]
        /\ \A i \in 1..Len(scores) - 1 :
              \/ scores[p[i]] > scores[p[i + 1]]
              \/ scores[p[i]] = scores[p[i + 1]] /\ p[i] < p[i + 1]

\* Reranker.rerank(query, documents, top_k), given the scores predict gave:
\* the (text, score) pairs, best first, at most top_k of them.
rerank(documents, scores, top_k) ==
    IF documents = <<>> THEN <<>>
    ELSE LET order == StableDescending(scores)
             scored_docs == [i \in 1..Len(documents) |->
                                <<documents[order[i]], scores[order[i]]>>]
         IN  Take(scored_docs, OrDefault(top_k, RERANK_TOP_K))

\* {doc.page_content: doc for doc in results}[text]: a later fragment with
\* the same text replaces an earlier one.
text_to_doc(results, text) ==
    results[CHOOSE i \in 1..Len(results) :
                /\ Content(results[i]) = text
                /\ \A j \in (i + 1)..Len(results) : Content(results[j]) # text]

\* [text_to_doc[text] for text, _ in reranked if text in text_to_doc]
MapBack(results, reranked) ==
    [i \in 1..Len(reranked) |-> text_to_doc(results, reranked[i][1])]

EngineCall(query, k, do_rerank) ==
    [IdleRet EXCEPT !.op = "similarity_search", !.query = query, !.top_k = k,
                    !.rerank = do_rerank]

\* RetrievalEngine.similarity_search(query, k, rerank); the Reranker it makes
\* lives for this call only.
EngineSearch(query, k_given, do_rerank) ==
    /\ ret.op = "idle"
    /\ LET k == OrDefault(k_given, TOP_K)
           call == EngineCall(query, k, do_rerank)
           fetch == IF do_rerank THEN k * 2 ELSE k
           results == similarity_search(vectordb, query, fetch, NoFilter)
           search(cause) == <<SearchCall(fetch, NoFilter, cause)>>
           doc_texts == [i \in 1..Len(results) |-> Content(results[i])]
           pairs == Pairs(query, results)
       IN  \/ \E cause \in Causes :
                ret' = Raised(call, Error("BackendError", cause, "none"),
                              search(cause), <<>>)
           \/ /\ ~do_rerank \/ results = <<>>
              /\ ret' = Returned(call, Take(results, k), search("none"),
                                 <<>>, <<>>)
           \/ /\ do_rerank /\ results # <<>> /\ ~installed
              /\ ret' = Raised(call, Error("ImportError", "none", "none"),
                               search("none"), <<>>)
           \/ /\ do_rerank /\ results # <<>> /\ installed
              /\ ret' = Raised(call, Error("PredictError", "none", "none"),
                               search("none"), <<pairs>>)
           \/ /\ do_rerank /\ results # <<>> /\ installed
              /\ \E score \in [Contents -> 0..MaxScore] :
                    LET scores == Predict(score, pairs)
                        reranked == rerank(doc_texts, scores, k)
                    IN  ret' = Returned(call,
                                        Take(MapBack(results, reranked), k),
                                        search("none"), <<pairs>>, scores)
    /\ UNCHANGED <<vectordb, reranker_model, installed, _reranker, constructed>>
    /\ UNCHANGED <<callers, chunkVars, promptVars>>

EngineSearchStep ==
    \E query \in Queries, k \in 0..MaxTopK, do_rerank \in BOOLEAN :
        EngineSearch(query, k, do_rerank)

InitEngine ==
    /\ vectordb \in {1..n : n \in 0..MaxDocs}
    /\ reranker_model = None
    /\ installed \in BOOLEAN
    /\ _reranker = None
    /\ constructed = 0
    /\ callers = IdleCallers
    /\ ret = IdleRet
    /\ IdleChunking
    /\ IdlePrompt

NextEngine == EngineSearchStep \/ Return

SpecEngine == InitEngine /\ [][NextEngine]_vars

\* ======================================================= retrieval claims
IsRetrieve == ret.op = "retrieve"

IsSafe == ret.op = "retrieve_safe"

\* The Stage-1 candidates of the call in ret (the index is read-only).
Candidates ==
    similarity_search(vectordb, ret.query, ret.searches[1].k,
                      ret.searches[1].filters)

Reranked == IsRetrieve /\ ret.status = "returned" /\ ret.predicts # <<>>

\* Position of fragment d among the Stage-1 candidates.
Position(d) == CHOOSE i \in 1..Len(Candidates) : Candidates[i] = d

ScoreOf(d) == ret.scores[Position(d)]

\* C1. Result bound: whenever retrieve returns, reranked or not, with or
\* without filters and for any rerank_top_k, the returned sequence holds at
\* most top_k fragments.
ResultBound ==
    (IsRetrieve /\ ret.status = "returned") => Len(ret.result) <= ret.top_k

\* A reranked call that had more candidates than top_k and returned top_k.
ResultBoundWitness ==
    /\ Reranked
    /\ ret.top_k >= 1
    /\ Len(Candidates) > ret.top_k
    /\ Len(ret.result) = ret.top_k
    /\ ret.filters # NoFilter

\* C2. Rerank correctness: when reranking ran, retrieve returns exactly top_k
\* distinct candidates, no candidate left out scores higher than a returned
\* one, and the returned ones are in descending score order; scores
\* A: low, B: high, C: middle with top_k = 2, rerank_top_k = 3 give [B, C].
RerankCorrect ==
    Reranked =>
        /\ Len(ret.result) = ret.top_k
        /\ Range(ret.result) \subseteq Range(Candidates)
        /\ \A i, j \in 1..Len(ret.result) : i # j => ret.result[i] # ret.result[j]
        /\ \A i \in 1..Len(ret.result) - 1 :
              ScoreOf(ret.result[i]) >= ScoreOf(ret.result[i + 1])
        /\ \A d \in Range(Candidates) \ Range(ret.result) :
              \A e \in Range(ret.result) : ScoreOf(d) <= ScoreOf(e)
        /\ (/\ ret.top_k = 2
            /\ ret.rerank_top_k = Some(3)
            /\ Len(Candidates) = 3
            /\ ret.scores = <<0, 2, 1>>)
           => ret.result = <<Candidates[2], Candidates[3]>>

\* The example of the claim: three candidates scored low, high, middle.
RerankCorrectWitness ==
    /\ Reranked
    /\ ret.top_k = 2
    /\ ret.rerank_top_k = Some(3)
    /\ Len(Candidates) = 3
    /\ ret.scores = <<0, 2, 1>>
    /\ ret.result = <<Candidates[2], Candidates[3]>>

\* C3. Rerank skip: a retrieve call with rerank_top_k <= top_k, or on a
\* retriever without a reranker, never invokes predict, however it ends.
RerankSkip ==
    (/\ IsRetrieve
     /\ \/ IsNone(reranker_model)
        \/ ~IsNone(ret.rerank_top_k) /\ ret.rerank_top_k[1] <= ret.top_k)
    => ret.predicts = <<>>

\* A loaded reranker, rerank_top_k <= top_k, and a non-empty result.
RerankSkipWitness ==
    /\ IsRetrieve
    /\ ret.status = "returned"
    /\ ~IsNone(_reranker)
    /\ ~IsNone(ret.rerank_top_k)
    /\ ret.rerank_top_k[1] <= ret.top_k
    /\ Len(ret.result) >= 2
    /\ ret.predicts = <<>>

\* C4. Fallback success: when the primary search of retrieve_safe raised and
\* the fallback search succeeded, the call returns what the fallback search
\* (k = fallback_k, no filter) found, and raises nothing.
FallbackSuccess ==
    (/\ IsSafe
     /\ Len(ret.searches) = 2
     /\ ~ret.searches[1].ok
     /\ ret.searches[2].ok)
    => /\ ret.status = "returned"
       /\ ret.error = NoError
       /\ ret.searches[1].k = ret.top_k
       /\ ret.searches[2].k = ret.fallback_k
       /\ ret.result =
            similarity_search(vectordb, ret.query, ret.fallback_k, NoFilter)

\* A fallback that found fragments after the primary search raised.
FallbackSuccessWitness ==
    /\ IsSafe
    /\ Len(ret.searches) = 2
    /\ ~ret.searches[1].ok
    /\ ret.searches[2].ok
    /\ ret.status = "returned"
    /\ Len(ret.result) >= 2
    /\ ret.fallback_k < ret.top_k

\* C5. Double failure: when both searches of retrieve_safe raised, the call
\* raises one RetrievalError that names the primary and the fallback cause;
\* and whenever retrieve_safe returns, the last search it issued succeeded and
\* the result is that search's result, so an empty result means no matches.
DoubleFailure ==
    IsSafe =>
        /\ (Len(ret.searches) = 2 /\ ~ret.searches[1].ok /\ ~ret.searches[2].ok)
           => /\ ret.status = "raised"
              /\ ret.error.type = "RetrievalError"
              /\ ret.error.primary = ret.searches[1].cause
              /\ ret.error.fallback = ret.searches[2].cause
              /\ ret.result = <<>>
        /\ ret.status = "returned"
           => LET last == ret.searches[Len(ret.searches)]
              IN  /\ last.ok
                  /\ ret.result =
                       similarity_search(vectordb, ret.query, last.k, NoFilter)

\* Both searches raised, for different reasons.
DoubleFailureWitness ==
    /\ IsSafe
    /\ ret.status = "raised"
    /\ Len(ret.searches) = 2
    /\ ret.searches[1].cause = "index unreachable"
    /\ ret.searches[2].cause = "index not ready"
    /\ ret.error = Error("RetrievalError", "index unreachable", "index not ready")

\* The stable descending order of the candidates: higher score first, equal
\* scores in candidate (similarity) order.
StableBefore(i, j) ==
    \/ ret.scores[i] > ret.scores[j]
    \/ ret.scores[i] = ret.scores[j] /\ i < j

\* C10. Rerank tie-break: when reranking ran, candidates with equal reranker
\* scores keep their similarity order in the result, i.e. the result is the
\* head of the stable descending sort of the candidates.
RerankTieBreakStable ==
    Reranked =>
        \A i, j \in 1..Len(ret.result) :
            i < j => StableBefore(Position(ret.result[i]), Position(ret.result[j]))

\* ========================================================= chunking claims
\* The words of the i-th chunk returned by TextChunker.chunk.
ChunkWords(i) == split(chunks.value[i])

\* C7. Overlap invariant: with overlap O below the chunk size, every two
\* consecutive chunks of TextChunker.chunk overlap by exactly O words, the
\* last O words of a chunk being the first O words of the next, for every
\* consecutive pair, the final pair included.
OverlapExact ==
    chunks.done =>
        \A i \in 1..(Len(chunks.value) - 1) :
            LET O == chunker.chunk_overlap
                a == ChunkWords(i)
                b == ChunkWords(i + 1)
            IN  /\ Len(a) >= O
                /\ Len(b) >= O
                /\ SubSeq(a, Len(a) - O + 1, Len(a)) = SubSeq(b, 1, O)

\* The chunk_id sequence of the r-th chunk_with_metadata call.
ChunkIds(r) ==
    [i \in 1..Len(runs[r].documents) |-> runs[r].documents[i].metadata.chunk_id]

\* C6. Determinism of fragment ids: chunk_with_metadata calls on the same
\* text with the same doc_id and chunk parameters yield the same chunk_id
\* sequence, whichever process runs them and whatever source label is given;
\* an id the chunker generated is the digest of doc_id, chunk_index and the
\* first 50 characters of the chunk.
ChunkIdsDeterministic ==
    /\ \A r1, r2 \in 1..Len(runs) : ChunkIds(r1) = ChunkIds(r2)
    /\ \A r \in 1..Len(runs) :
          \A i \in 1..Len(runs[r].documents) :
              "chunk_id" \notin DOMAIN input.extra
              => ChunkIds(r)[i] =
                    sha256_16(input.doc_id \o <<"_">> \o Str(i - 1) \o <<"_">> \o
                              Take(runs[r].documents[i].page_content, FirstChars))

\* Two calls in different processes under different source labels, several
\* chunks each, ids generated by the chunker.
ChunkIdsDeterministicWitness ==
    /\ Len(runs) >= 2
    /\ runs[1].process # runs[2].process
    /\ runs[1].source # runs[2].source
    /\ Len(runs[1].documents) >= 2
    /\ "chunk_id" \notin DOMAIN input.extra
    /\ ChunkIds(1) = ChunkIds(2)

\* =========================================================== prompt claims
\* The label a fragment must carry at position idx of the context block.
ExpectedLabel(d, idx) ==
    IF "publication_id" \in DOMAIN Metadata(d) THEN Metadata(d).publication_id
    ELSE IF "doc_id" \in DOMAIN Metadata(d) THEN Metadata(d).doc_id
         ELSE <<"doc_", idx>>

\* C8. Citation completeness: for a non-empty fragment list the context block
\* holds exactly one line per fragment, numbered 1..n in input order, each
\* labelled with the fragment's publication_id, else its doc_id, else the
\* placeholder doc_N with N its number; no fragment is left out.
CitationComplete ==
    (block.done /\ request.context_docs # <<>>) =>
        /\ block.value.literal = ""
        /\ Len(block.value.lines) = Len(request.context_docs)
        /\ \A i \in 1..Len(block.value.lines) :
              /\ block.value.lines[i].number = i
              /\ block.value.lines[i].label =
                    ExpectedLabel(request.context_docs[i], i)
              /\ block.value.lines[i].excerpt = excerpt(request.context_docs[i])

\* A block for two fragments, the second of which has no identifier.
CitationCompleteWitness ==
    /\ block.done
    /\ Len(request.context_docs) = 2
    /\ DOMAIN Metadata(request.context_docs[2]) = {"topic"}
    /\ "doc_id" \in DOMAIN Metadata(request.context_docs[1])
    /\ block.value.lines[2].label = <<"doc_", 2>>

\* The last message of the built prompt.
FinalMessage == prompt.messages[Len(prompt.messages)]

\* C9. Empty-context prompt: a prompt built for an empty fragment list is the
\* anchor turns, the history and one final user turn whose context block is
\* the literal no-relevant-documents marker, not an empty block.
EmptyContextPrompt ==
    /\ (block.done /\ request.context_docs = <<>>)
       => block.value = Block(NoDocumentsMarker, <<>>)
    /\ (prompt.status = "built" /\ request.context_docs = <<>>)
       => /\ Len(prompt.messages) >= 4
          /\ FinalMessage.role = "user"
          /\ FinalMessage.content.context.literal = "No relevant documents found."
          /\ FinalMessage.content.context.lines = <<>>
          /\ FinalMessage.content.query = strip(request.query)

\* A prompt built for a query and no fragments.
EmptyContextPromptWitness ==
    /\ prompt.status = "built"
    /\ request.context_docs = <<>>
    /\ request.query = <<" ", "q", " ">>
    /\ FinalMessage.content.context.literal = NoDocumentsMarker

\* ============================================== retrieval claims, continued
\* The returned fragments are in the index's similarity order for the query.
InSimilarityOrder ==
    \A i, j \in 1..Len(ret.result) :
        i < j =>
            \E a, b \in 1..Len(SimilarityOrder(ret.query)) :
                /\ a < b
                /\ SimilarityOrder(ret.query)[a] = ret.result[i]
                /\ SimilarityOrder(ret.query)[b] = ret.result[j]

\* Best first: by reranker score when the call reranked, else by similarity.
BestFirst ==
    IF ret.predicts # <<>>
    THEN \A i \in 1..(Len(ret.result) - 1) :
            ScoreOf(ret.result[i]) >= ScoreOf(ret.result[i + 1])
    ELSE InSimilarityOrder

\* C11. Output guarantee on every path: whatever retrieve or retrieve_safe
\* returns, on the primary path and on the fallback path, for any top_k and
\* fallback_k, is ordered best first and holds at most top_k fragments.
OutputGuarantee ==
    ret.status = "returned" => BestFirst /\ Len(ret.result) <= ret.top_k

\* C12. Reranker scoring failure: when predict raises after Stage 1 succeeded,
\* retrieve does not score again and the caller receives a RetrievalError.
ScoringFailureTyped ==
    (IsRetrieve /\ ret.status = "raised" /\ ret.predicts # <<>>)
    => /\ Len(ret.predicts) = 1
       /\ Len(ret.searches) = 1
       /\ ret.error.type = "RetrievalError"

\* C13. No duplicates: no two entries of a sequence returned by retrieve are
\* the same fragment, on the reranked and on the unranked path.
NoDuplicates ==
    (IsRetrieve /\ ret.status = "returned") =>
        \A i, j \in 1..Len(ret.result) : i # j => ret.result[i] # ret.result[j]

\* A reranked result of two fragments where two candidates share one text.
NoDuplicatesWitness ==
    /\ Reranked
    /\ Len(ret.result) >= 2
    /\ \E i, j \in 1..Len(Candidates) :
          i # j /\ Content(Candidates[i]) = Content(Candidates[j])
    /\ \A i, j \in 1..Len(ret.result) : i # j => ret.result[i] # ret.result[j]

\* C20. Metadata filters: the filters of a retrieve call are the filter of its
\* Stage-1 search, with or without a reranker, so every returned fragment's
\* metadata holds every filter pair.
FiltersAtIndex ==
    IsRetrieve =>
        /\ \A i \in 1..Len(ret.searches) : ret.searches[i].filters = ret.filters
        /\ ret.status = "returned"
           => \A d \in Range(ret.result) :
                 \A key \in DOMAIN ret.filters :
                     /\ key \in DOMAIN Metadata(d)
                     /\ Metadata(d)[key] = ret.filters[key]

\* A reranked call under a topic filter that left a stored fragment out.
FiltersAtIndexWitness ==
    /\ Reranked
    /\ ret.filters = [topic |-> "5G"]
    /\ Len(ret.result) >= 2
    /\ \E d \in vectordb : Metadata(d).topic # "5G"

\* ============================================== chunking claims, continued
\* C16. Fragments are never empty: every chunk returned by TextChunker.chunk
\* is a non-empty string, and when no chunk survives the filter the single
\* fragment returned is the whole original text.
ChunksNeverEmpty ==
    chunks.done =>
        /\ Len(chunks.value) >= 1
        /\ \A i \in 1..Len(chunks.value) : chunks.value[i] # <<>>
        /\ split(input.text) = <<>> => chunks.value = <<input.text>>

\* C17. Fragment position invariant: every fragment of a chunk_with_metadata
\* call carries its position in the returned list as chunk_index and the
\* list's length as total_chunks, with the call's source and doc_id and the
\* chunk_id derived from doc_id, position and text, whatever extra metadata
\* keys the caller passed.
PositionInvariant ==
    \A r \in 1..Len(runs) :
        \A i \in 1..Len(runs[r].documents) :
            LET document == runs[r].documents[i]
                metadata == document.metadata
            IN  /\ metadata.chunk_index = i - 1
                /\ metadata.total_chunks = Len(runs[r].documents)
                /\ metadata.source = runs[r].source
                /\ metadata.doc_id = input.doc_id
                /\ metadata.chunk_id =
                      _generate_chunk_id(input.doc_id, i - 1,
                                         document.page_content)

\* ================================================ prompt claims, continued
\* The history turns a request supplies; none when chat_history is absent.
SuppliedHistory ==
    IF IsNone(request.chat_history) THEN <<>> ELSE request.chat_history[1]

\* C18. Prompt turn order: an assembled prompt is the system persona turn,
\* the scripted user/assistant reinforcement pair, the chat_history turns
\* verbatim in their order, and exactly one final user turn that holds the
\* query and the context block; the pair is always there, ahead of the
\* history.
PromptTurnOrder ==
    prompt.status = "built" =>
        /\ Len(prompt.messages) = 3 + Len(SuppliedHistory) + 1
        /\ prompt.messages[1].role = "system"
        /\ prompt.messages[1] = AnchorMessages[1]
        /\ prompt.messages[2].role = "user"
        /\ prompt.messages[2] = AnchorMessages[2]
        /\ prompt.messages[3].role = "assistant"
        /\ prompt.messages[3] = AnchorMessages[3]
        /\ \A i \in 1..Len(SuppliedHistory) :
              prompt.messages[3 + i] = SuppliedHistory[i]
        /\ FinalMessage.role = "user"
        /\ FinalMessage.content.query = strip(request.query)
        /\ FinalMessage.content.context =
              _format_context_block(request.context_docs)

\* A prompt built over a two-turn history, a query and a fragment.
PromptTurnOrderWitness ==
    /\ prompt.status = "built"
    /\ Len(SuppliedHistory) = 2
    /\ request.query = <<"q">>
    /\ Len(request.context_docs) >= 1
    /\ Len(prompt.messages) = 6
    /\ prompt.messages[4] = SuppliedHistory[1]
    /\ prompt.messages[5] = SuppliedHistory[2]

\* A history or anchor turn with no text.
TurnEmpty(message) ==
    "text" \in DOMAIN message.content /\ message.content.text = ""

\* C19. Prompt well-formedness: in every assembled prompt no turn is empty,
\* the first turn is the system turn, and from the second turn on user and
\* assistant turns alternate, ending with the final user turn.
PromptWellFormed ==
    prompt.status = "built" =>
        /\ \A i \in 1..Len(prompt.messages) : ~TurnEmpty(prompt.messages[i])
        /\ prompt.messages[1].role = "system"
        /\ \A i \in 2..Len(prompt.messages) :
              prompt.messages[i].role =
                  IF i % 2 = 0 THEN "user" ELSE "assistant"
        /\ FinalMessage.role = "user"

\* ===================================================== fragment id claims
\* The fragment at position i of run r, and the id the chunker derives for it.
Fragment(r, i) == runs[r].documents[i].page_content

GeneratedId(r, i) == _generate_chunk_id(input.doc_id, i - 1, Fragment(r, i))

\* The positions two runs have in common.
SharedPositions(r1, r2) ==
    1..Min(Len(runs[r1].documents), Len(runs[r2].documents))

\* C15, as stated. Content-addressed ids: for the same doc_id and the same
\* chunk_index, two fragments with different text receive different ids.
ContentAddressed ==
    \A r1, r2 \in 1..Len(runs) :
        \A i \in SharedPositions(r1, r2) :
            Fragment(r1, i) # Fragment(r2, i)
            => GeneratedId(r1, i) # GeneratedId(r2, i)

\* C15, amended. For the same doc_id and the same chunk_index, two fragments
\* receive different ids exactly when their first 50 characters differ; the
\* id a fragment carries is that derived id unless the caller passed its own.
PrefixAddressed ==
    \A r1, r2 \in 1..Len(runs) :
        \A i \in SharedPositions(r1, r2) :
            /\ Take(Fragment(r1, i), FirstChars) # Take(Fragment(r2, i), FirstChars)
               <=> GeneratedId(r1, i) # GeneratedId(r2, i)
            /\ "chunk_id" \notin DOMAIN input.extra
               => runs[r1].documents[i].metadata.chunk_id = GeneratedId(r1, i)

\* A document ingested, edited within its first 50 characters, and ingested
\* again: the fragment at position 0 changed and so did its id.
PrefixAddressedWitness ==
    /\ Len(runs) >= 2
    /\ "chunk_id" \notin DOMAIN input.extra
    /\ Fragment(1, 1) # Fragment(2, 1)
    /\ Take(Fragment(1, 1), FirstChars) # Take(Fragment(2, 1), FirstChars)
    /\ runs[1].documents[1].metadata.chunk_id
          # runs[2].documents[1].metadata.chunk_id

\* ================================================== lazy reranker claims
\* Everything the request threads have obtained from the property so far.
Obtained == UNION {Range(callers[t].got) : t \in Threads}

\* C14. Lazy reranker initialization under concurrent first use: with a
\* reranker model configured, under every interleaving of the request
\* threads the cross-encoder is constructed at most once, exactly once as
\* soon as an access has returned, and every access returns that instance.
ConstructedOnce ==
    ~IsNone(reranker_model) =>
        /\ constructed <= 1
        /\ Obtained # {} => constructed = 1 /\ Obtained = {Some(1)}

\* ================================================ retrieval claims, stages
\* Whether the call in ret had a reranker to work with.
RerankerConfigured == ~IsNone(reranker_model) /\ installed

\* What a retriever without a reranker returns for the call in ret.
WithoutReranker ==
    Unranked(similarity_search(vectordb, ret.query, ret.top_k, ret.filters),
             ret.top_k)

\* C21. rerank_top_k disable rule: with a reranker configured, a retrieve
\* call whose rerank_top_k is at most top_k skips reranking and returns the
\* sequence a retriever without a reranker returns for the same query, top_k
\* and filters.
DisableRule ==
    (/\ IsRetrieve
     /\ ret.status = "returned"
     /\ RerankerConfigured
     /\ ~IsNone(ret.rerank_top_k)
     /\ ret.rerank_top_k[1] <= ret.top_k)
    => /\ ret.predicts = <<>>
       /\ ret.result = WithoutReranker

\* The k Stage 1 must ask for in the call in ret.
ExpectedK ==
    IF RerankerConfigured /\ ~IsNone(ret.rerank_top_k)
    THEN ret.rerank_top_k[1]
    ELSE ret.top_k

\* One search at the expected k, and at most one scoring batch, made of all
\* candidates that search returned.
OneSearchThenOneBatch ==
    /\ Len(ret.searches) = 1
    /\ ret.searches[1].k = ExpectedK
    /\ Len(ret.predicts) <= 1
    /\ ret.predicts # <<>>
       => /\ ret.searches[1].ok
          /\ ret.predicts[1] = Pairs(ret.query, Candidates)

SingleRetry ==
    (IsSafe /\ ret.status # "idle") =>
        /\ Len(ret.searches) \in {1, 2}
        /\ ret.searches[1].k = ret.top_k
        /\ ret.searches[1].ok
           => /\ Len(ret.searches) = 1
              /\ ret.status = "returned"
              /\ ret.result = Candidates
        /\ ~ret.searches[1].ok
           => /\ Len(ret.searches) = 2
              /\ ret.searches[2].k = ret.fallback_k
        /\ ret.predicts = <<>>

\* A call whose first search succeeded, and so made no second one, although
\* its fallback_k differs from its top_k.
SingleRetryWitness ==
    /\ IsSafe
    /\ ret.status = "returned"
    /\ Len(ret.searches) = 1
    /\ ret.searches[1].ok
    /\ ret.top_k = 2
    /\ ret.fallback_k = 1
    /\ Len(ret.result) = 2

\* ================================================ RetrievalEngine claims
EngineReranked ==
    /\ ret.op = "similarity_search"
    /\ ret.rerank
    /\ ret.status = "returned"
    /\ ret.predicts # <<>>

\* C29. RetrievalEngine.similarity_search with rerank=True fetches 2k
\* candidates and returns at most k of them, each a different fetched
\* candidate, best reranker score first: none twice, none replaced by
\* another, also when two candidates have the same page_content.
EngineRerankKeepsCandidates ==
    EngineReranked =>
        /\ ret.searches[1].k = 2 * ret.top_k
        /\ Len(ret.result) = Min(ret.top_k, Len(Candidates))
        /\ \A d \in Range(ret.result) : d \in Range(Candidates)
        /\ \A i, j \in 1..Len(ret.result) :
              i # j => ret.result[i] # ret.result[j]
        /\ \A i \in 1..(Len(ret.result) - 1) :
              ScoreOf(ret.result[i]) >= ScoreOf(ret.result[i + 1])
        /\ \A d \in Range(Candidates) :
              d \notin Range(ret.result)
              => \A e \in Range(ret.result) : ScoreOf(e) >= ScoreOf(d)

\* ======================================== fragment id claims, continued
\* The fragments ingested so far: run and position.
Ingested ==
    UNION {{<<r, i>> : i \in 1..Len(runs[r].documents)} : r \in 1..Len(runs)}

MetadataOf(f) == runs[f[1]].documents[f[2]].metadata

\* C28. Ids are distinct across positions: two ingested fragments that differ
\* in doc_id or in chunk_index never hash the same string and never carry
\* the same chunk_id.
IdsDistinctAcrossPositions ==
    \A f, g \in Ingested :
        (\/ MetadataOf(f).doc_id # MetadataOf(g).doc_id
         \/ MetadataOf(f).chunk_index # MetadataOf(g).chunk_index)
        => /\ hash_input(MetadataOf(f).doc_id, MetadataOf(f).chunk_index,
                         Fragment(f[1], f[2]))
              # hash_input(MetadataOf(g).doc_id, MetadataOf(g).chunk_index,
                           Fragment(g[1], g[2]))
           /\ MetadataOf(f).chunk_id # MetadataOf(g).chunk_id

\* ====================================================== generation claims
\* C27. Marker stripping: the text generate_response returns has no line
\* that is a role marker alone (system, user, assistant, in any case, with
\* or without blanks around it) and holds no <|im_start|> or <|im_end|>.
MarkersStripped ==
    generation.done =>
        \A i \in 1..Len(generation.text) :
            /\ ~IsRoleMarker(strip(generation.text[i]))
            /\ \A j \in 1..Len(generation.text[i]) :
                  generation.text[i][j] \notin Markers

\* ========================================================= /query claims
RetrieverCalled ==
    handler.status # "idle" /\ handler.calls # <<>> /\ handler.calls[1] = "retrieve"

\* C22. top_k clamping at the API: for every accepted request the retriever
\* is called with a top_k between 1 and 20, the request's own top_k when it
\* carries one and the configured default brought into that range when not.
ClampedTopK ==
    RetrieverCalled =>
        /\ handler.top_k >= 1
        /\ handler.top_k <= 20
        /\ ~IsNone(handler.top_k_given) => handler.top_k = handler.top_k_given[1]
        /\ (IsNone(handler.top_k_given) /\ handler.settings_top_k \in 1..20)
           => handler.top_k = handler.settings_top_k

\* A request without top_k under a configured default above the limit.
ClampedTopKWitness ==
    /\ RetrieverCalled
    /\ IsNone(handler.top_k_given)
    /\ handler.settings_top_k > 20
    /\ handler.top_k = 20

\* Where identifier id first occurs among the retrieved fragments.
FirstOccurrence(id) ==
    CHOOSE i \in 1..Len(handler.retrieved_docs) :
        /\ pub_id(handler.retrieved_docs[i]) = id
        /\ \A j \in 1..(i - 1) : pub_id(handler.retrieved_docs[j]) # id

\* C23. Cited sources: a successful response lists the identifier of every
\* retrieved fragment (publication_id, else doc_id, else the placeholder),
\* each once, in the order the identifiers first occur among the fragments,
\* and nothing else.
CitedSources ==
    handler.status = "200" =>
        /\ \A d \in Range(handler.retrieved_docs) :
              \E i \in 1..Len(handler.sources) :
                  handler.sources[i] =
                      (IF "publication_id" \in DOMAIN Metadata(d)
                       THEN Metadata(d).publication_id
                       ELSE IF "doc_id" \in DOMAIN Metadata(d)
                            THEN Metadata(d).doc_id
                            ELSE <<"unknown">>)
        /\ \A i \in 1..Len(handler.sources) :
              \E d \in Range(handler.retrieved_docs) :
                  pub_id(d) = handler.sources[i]
        /\ \A i, j \in 1..Len(handler.sources) :
              i < j => /\ handler.sources[i] # handler.sources[j]
                       /\ FirstOccurrence(handler.sources[i])
                             < FirstOccurrence(handler.sources[j])

\* A response over four fragments, two of one publication and one with no
\* identifier: three sources, the placeholder among them.
CitedSourcesWitness ==
    /\ handler.status = "200"
    /\ Len(handler.retrieved_docs) = 4
    /\ Len(handler.sources) = 3
    /\ \E i \in 1..3 : handler.sources[i] = <<"unknown">>

\* C24. Request control flow: for every request whose retrieval returned at
\* least one fragment, the prompt is assembled from the query and those
\* fragments and generation is then invoked once with it, in this order,
\* before the response goes out.
ControlFlow ==
    (handler.status # "idle" /\ handler.retrieved_docs # <<>>) =>
        /\ handler.calls =
              <<"retrieve", "build_rag_prompt", "generate_response">>
        /\ handler.prompt =
              Some([query |-> handler.query,
                    context_docs |-> handler.retrieved_docs])

\* ================================================== chat surface claims
\* C30. Chat session history: after any sequence of submitted queries, also
\* ones that end in an empty retrieval or in an error, the stored history
\* alternates user and assistant turns starting with user, every user turn
\* followed by one assistant turn before the next user turn; and the history
\* handed to the Prompt Assembler leaves out the query being answered.
SessionAlternates ==
    /\ \A i \in 1..Len(session.messages) :
          session.messages[i].role =
              IF i % 2 = 1 THEN "user" ELSE "assistant"
    /\ \A i \in 1..Len(session.chat_history) :
          session.chat_history[i] = TurnText(session.messages[i])
    /\ session.last \in {"answered", "error"} /\ session.chat_history # <<>>
       => Len(session.chat_history) < Len(session.messages)

====
